---- MODULE Spec2Model ----
(***************************************************************************)
(* PrefixSumComputer (src/unnamed/part_001):                               *)
(* a weight array, a lazily maintained array of inclusive prefix sums and  *)
(* the index up to which that array can be trusted.                        *)
(*                                                                         *)
(* Each method is an operator from the object's fields (a record `t`) and  *)
(* the arguments to the fields after the call and the returned value; each *)
(* action of the state machine is one call of one method.                  *)
(***************************************************************************)
EXTENDS Integers, Sequences, FiniteSets, TLC

\* ------------------------------------------------------------ bounds
\* Longest weight sequence a behaviour builds.
MaxLen == 2
\* Weights are drawn from 0..MaxWeight.
MaxWeight == 1
\* Longest run of weights one insertValues call inserts.
MaxInsert == 1

\* No cumulative sum of a behaviour exceeds this.
MaxTotal == MaxLen * MaxWeight

\* ------------------------------------------------------------ numbers
\* A JavaScript value a method reads or returns: a number, undefined (a read
\* outside a typed array's bounds) or NaN (arithmetic on undefined).  A number
\* is an integer of any size, held as hi * 2^16 + lo with 0 <= lo < 2^16, so
\* that sums beyond 2^32 and their reduction modulo 2^32 are both exact.
Base == 2 ^ 16
Number(n) == [type |-> "number", hi |-> n \div Base, lo |-> n % Base]
undefined == [type |-> "undefined", hi |-> 0, lo |-> 0]
NaN == [type |-> "NaN", hi |-> 0, lo |-> 0]
IsNumber(v) == v.type = "number"
\* The integer a number holds, for array indices and lengths.
AsInt(v) == v.hi * Base + v.lo

Plus(a, b) ==
    IF IsNumber(a) /\ IsNumber(b)
    THEN [type |-> "number",
          hi |-> a.hi + b.hi + ((a.lo + b.lo) \div Base),
          lo |-> (a.lo + b.lo) % Base]
    ELSE NaN
Minus(a, b) ==
    IF IsNumber(a) /\ IsNumber(b)
    THEN [type |-> "number",
          hi |-> a.hi - b.hi + ((a.lo - b.lo) \div Base),
          lo |-> (a.lo - b.lo) % Base]
    ELSE NaN
\* a < b and a >= b; both are false when an operand is not a number.
Less(a, b) ==
    /\ IsNumber(a) /\ IsNumber(b)
    /\ (a.hi < b.hi \/ (a.hi = b.hi /\ a.lo < b.lo))
GreaterEq(a, b) == IsNumber(a) /\ IsNumber(b) /\ ~Less(a, b)

\* The largest unsigned 32-bit integer, 2^32 - 1.
MAX_UINT_32 == [type |-> "number", hi |-> Base - 1, lo |-> Base - 1]

\* vs/base/common/uint toUint32: coerces into the unsigned 32-bit range.
toUint32(v) ==
    IF Less(v, Number(0)) THEN Number(0)
    ELSE IF Less(MAX_UINT_32, v) THEN MAX_UINT_32
    ELSE v

\* ------------------------------------------------------------ typed arrays
\* A Uint32Array is a sequence of numbers below 2^32; JavaScript index i is
\* element i + 1.
\* new Uint32Array(n): n zeros.
NewUint32Array(n) == [i \in 1..n |-> Number(0)]

\* a[i]: undefined outside the bounds.
Load(a, i) == IF i >= 0 /\ i < Len(a) THEN a[i + 1] ELSE undefined

\* What a Uint32Array element holds after v is assigned to it: v modulo 2^32,
\* and 0 when v is not a number.
Uint32(v) == IF IsNumber(v) THEN [v EXCEPT !.hi = v.hi % Base] ELSE Number(0)

\* a[i] = v: ignored outside the bounds.
Store(a, i, v) ==
    IF i >= 0 /\ i < Len(a) THEN [a EXCEPT ![i + 1] = Uint32(v)] ELSE a

\* a.subarray(begin) and a.subarray(begin, end), both clamped to the bounds.
Clamp(i, n) == IF i < 0 THEN 0 ELSE IF i > n THEN n ELSE i
Subarray(a, begin, end) ==
    LET b == Clamp(begin, Len(a))
        e == Clamp(end, Len(a))
    IN  IF e <= b THEN <<>> ELSE [i \in 1..(e - b) |-> a[b + i]]

\* target.set(source, offset) fits iff source.length + offset <= target.length;
\* otherwise it throws a RangeError.
SetFits(target, source, offset) == Len(source) + offset <= Len(target)
SetAt(target, source, offset) ==
    [i \in 1..Len(target) |->
        IF i > offset /\ i <= offset + Len(source) THEN source[i - offset]
        ELSE target[i]]

Min(a, b) == IF a < b THEN a ELSE b
Max(a, b) == IF a > b THEN a ELSE b

\* ------------------------------------------------------------ inputs
\* The weights the calls are given, and the runs of them up to a length.
Weights == {Number(w) : w \in 0..MaxWeight}
SeqsUpTo(n) == UNION {[1..k -> Weights] : k \in 0..n}

\* ------------------------------------------------------------ state
VARIABLES
    values,                 \* this.values
    prefixSum,              \* this.prefixSum
    prefixSumValidIndex,    \* this.prefixSumValidIndex[0]
    call,                   \* the last call made on the object
    argument,               \* the array passed to the constructor, as its caller holds it
    weights,                \* the eager reference model: the plain weight sequence
    _data,                  \* each MarkerService's _data
    output,                 \* each MarkerService's onMarkerChanged: the debounced list not yet delivered
    _dedupeMap,             \* MarkerService._dedupeMap, the one static of all services
    fired                   \* the resources each service fired a change for since its last delivery

prefixSumVars == <<values, prefixSum, prefixSumValidIndex, call, argument, weights>>
markerVars == <<_data, output, _dedupeMap, fired>>
vars == <<values, prefixSum, prefixSumValidIndex, call, argument, weights,
          _data, output, _dedupeMap, fired>>

\* The object's fields as one record.
This(v, p, x) == [values |-> v, prefixSum |-> p, prefixSumValidIndex |-> x]
this == This(values, prefixSum, prefixSumValidIndex)

\* new PrefixSumComputer(values)
constructor(initial) == This(initial, NewUint32Array(Len(initial)), -1)

\* ------------------------------------------------------------ mutators
\* What a mutator call leaves: the fields, the returned boolean, and whether
\* the call ended in a thrown RangeError instead of returning.
Returned(t, ret) == [this |-> t, ret |-> ret, threw |-> FALSE]
Thrown(t) == [this |-> t, ret |-> FALSE, threw |-> TRUE]

\* InsertedValues with the old tail left in place instead of shifted right
\* by the length of the inserted run.
InsertedValuesTailNotShifted(oldValues, insertIndex, toInsert) ==
    LET v0 == NewUint32Array(Len(oldValues) + Len(toInsert))
        v1 == SetAt(v0, Subarray(oldValues, 0, insertIndex), 0)
        v2 == SetAt(v1, Subarray(oldValues, insertIndex, Len(oldValues)), insertIndex)
    IN  SetAt(v2, toInsert, insertIndex)

\* The weight array insertValues builds: a zeroed array of the new length,
\* then the old head, the old tail shifted right, and the inserted run.
InsertedValues(oldValues, insertIndex, toInsert) ==
    LET insertValuesLen == Len(toInsert)
        v0 == NewUint32Array(Len(oldValues) + insertValuesLen)
        v1 == SetAt(v0, Subarray(oldValues, 0, insertIndex), 0)
        v2 == SetAt(v1, Subarray(oldValues, insertIndex, Len(oldValues)),
                    insertIndex + insertValuesLen)
    IN  SetAt(v2, toInsert, insertIndex)

\* CarriedPrefixSum without the reallocation: the old cache array is kept.
CarriedPrefixSumNotReallocated(oldPrefixSum, newLen, validIndex) == oldPrefixSum

\* The cache a mutator leaves: a zeroed array of the new length holding the
\* old cache's entries 0..validIndex.
CarriedPrefixSum(oldPrefixSum, newLen, validIndex) ==
    IF validIndex >= 0
    THEN SetAt(NewUint32Array(newLen), Subarray(oldPrefixSum, 0, validIndex + 1), 0)
    ELSE NewUint32Array(newLen)

\* LoweredValidIndex that gives up the whole cache on every mutation.
LoweredValidIndexInvalidatesAll(validIndex, at) == -1

\* LoweredValidIndex without any invalidation.
LoweredValidIndexKept(validIndex, at) == validIndex

\* LoweredValidIndex with the comparison off by one: a mutation at the
\* watermark itself leaves the watermark where it was.
LoweredValidIndexOffByOne(validIndex, at) ==
    IF at < validIndex THEN at - 1 ELSE validIndex

\* The watermark after a mutation at position `at`.
LoweredValidIndex(validIndex, at) ==
    IF at - 1 < validIndex THEN at - 1 ELSE validIndex

insertValues(t, index, toInsert) ==
    LET insertIndex == AsInt(toUint32(Number(index)))
        oldValues == t.values
        oldPrefixSum == t.prefixSum
        insertValuesLen == Len(toInsert)
        head == SetAt(NewUint32Array(Len(oldValues) + insertValuesLen),
                      Subarray(oldValues, 0, insertIndex), 0)
        newValues == InsertedValues(oldValues, insertIndex, toInsert)
        validIndex == LoweredValidIndex(t.prefixSumValidIndex, insertIndex)
    IN  IF insertValuesLen = 0 THEN Returned(t, FALSE)
        ELSE IF ~SetFits(head, Subarray(oldValues, insertIndex, Len(oldValues)),
                         insertIndex + insertValuesLen)
        \* the second set() throws: this.values is already the new array
        THEN Thrown(This(head, oldPrefixSum, t.prefixSumValidIndex))
        ELSE Returned(This(newValues,
                           CarriedPrefixSum(oldPrefixSum, Len(newValues), validIndex),
                           validIndex), TRUE)

\* changeValue without the invalidation: the watermark is left alone.
changeValueKeepsValidIndex(t, index0, value0) ==
    LET index == AsInt(toUint32(Number(index0)))
        value == toUint32(value0)
    IN  IF Load(t.values, index) = value THEN Returned(t, FALSE)
        ELSE Returned(This(Store(t.values, index, value),
                           t.prefixSum, t.prefixSumValidIndex), TRUE)

\* changeValue with the watermark set to index - 1 without comparing.
changeValueSetsValidIndex(t, index0, value0) ==
    LET index == AsInt(toUint32(Number(index0)))
        value == toUint32(value0)
    IN  IF Load(t.values, index) = value THEN Returned(t, FALSE)
        ELSE Returned(This(Store(t.values, index, value),
                           t.prefixSum, index - 1), TRUE)

\* changeValue invalidating from index + 1 on: the watermark drops to index.
changeValueOffByOne(t, index0, value0) ==
    LET index == AsInt(toUint32(Number(index0)))
        value == toUint32(value0)
    IN  IF Load(t.values, index) = value THEN Returned(t, FALSE)
        ELSE Returned(This(Store(t.values, index, value),
                           t.prefixSum,
                           LoweredValidIndex(t.prefixSumValidIndex, index + 1)), TRUE)

changeValue(t, index0, value0) ==
    LET index == AsInt(toUint32(Number(index0)))
        value == toUint32(value0)
    IN  IF Load(t.values, index) = value THEN Returned(t, FALSE)
        ELSE Returned(This(Store(t.values, index, value),
                           t.prefixSum,
                           LoweredValidIndex(t.prefixSumValidIndex, index)), TRUE)

\* RemainingValues without the copy of the tail behind the removed run.
RemainingValuesHeadOnly(oldValues, startIndex, cnt) ==
    SetAt(NewUint32Array(Len(oldValues) - cnt), Subarray(oldValues, 0, startIndex), 0)

\* The weight array removeValues builds: a zeroed array of the new length,
\* then the old head and the old tail shifted left.
RemainingValues(oldValues, startIndex, cnt) ==
    LET v0 == NewUint32Array(Len(oldValues) - cnt)
        v1 == SetAt(v0, Subarray(oldValues, 0, startIndex), 0)
    IN  SetAt(v1, Subarray(oldValues, startIndex + cnt, Len(oldValues)), startIndex)

\* removeValues without the invalidation: the watermark is left alone.
removeValuesKeepsValidIndex(t, startIndex0, cnt0) ==
    LET startIndex == AsInt(toUint32(Number(startIndex0)))
        requested == AsInt(toUint32(Number(cnt0)))
        oldValues == t.values
        maxCnt == Len(oldValues) - startIndex
        cnt == IF requested >= maxCnt THEN maxCnt ELSE requested
        newValues == RemainingValues(oldValues, startIndex, cnt)
    IN  IF startIndex >= Len(oldValues) THEN Returned(t, FALSE)
        ELSE IF cnt = 0 THEN Returned(t, FALSE)
        ELSE Returned(This(newValues,
                           CarriedPrefixSum(t.prefixSum, Len(newValues),
                                            t.prefixSumValidIndex),
                           t.prefixSumValidIndex), TRUE)

\* removeValues rejecting a count beyond the end instead of clamping it.
removeValuesRejectsLargeCount(t, startIndex0, cnt0) ==
    LET startIndex == AsInt(toUint32(Number(startIndex0)))
        cnt == AsInt(toUint32(Number(cnt0)))
        oldValues == t.values
        newValues == RemainingValues(oldValues, startIndex, cnt)
        validIndex == LoweredValidIndex(t.prefixSumValidIndex, startIndex)
    IN  IF startIndex >= Len(oldValues) THEN Returned(t, FALSE)
        ELSE IF cnt > Len(oldValues) - startIndex THEN Returned(t, FALSE)
        ELSE IF cnt = 0 THEN Returned(t, FALSE)
        ELSE Returned(This(newValues,
                           CarriedPrefixSum(t.prefixSum, Len(newValues), validIndex),
                           validIndex), TRUE)

\* removeValues without the cnt === 0 return: the arrays are rebuilt and true
\* is returned also when nothing is removed.
removeValuesNoZeroCheck(t, startIndex0, cnt0) ==
    LET startIndex == AsInt(toUint32(Number(startIndex0)))
        requested == AsInt(toUint32(Number(cnt0)))
        oldValues == t.values
        maxCnt == Len(oldValues) - startIndex
        cnt == IF requested >= maxCnt THEN maxCnt ELSE requested
        newValues == RemainingValues(oldValues, startIndex, cnt)
        validIndex == LoweredValidIndex(t.prefixSumValidIndex, startIndex)
    IN  IF startIndex >= Len(oldValues) THEN Returned(t, FALSE)
        ELSE Returned(This(newValues,
                           CarriedPrefixSum(t.prefixSum, Len(newValues), validIndex),
                           validIndex), TRUE)

removeValues(t, startIndex0, cnt0) ==
    LET startIndex == AsInt(toUint32(Number(startIndex0)))
        requested == AsInt(toUint32(Number(cnt0)))
        oldValues == t.values
        oldPrefixSum == t.prefixSum
        maxCnt == Len(oldValues) - startIndex
        cnt == IF requested >= maxCnt THEN maxCnt ELSE requested
        newValues == RemainingValues(oldValues, startIndex, cnt)
        validIndex == LoweredValidIndex(t.prefixSumValidIndex, startIndex)
    IN  IF startIndex >= Len(oldValues) THEN Returned(t, FALSE)
        ELSE IF cnt = 0 THEN Returned(t, FALSE)
        ELSE Returned(This(newValues,
                           CarriedPrefixSum(oldPrefixSum, Len(newValues), validIndex),
                           validIndex), TRUE)

\* ------------------------------------------------------------ queries
\* What a query call leaves: the fields and the returned value.
Answered(t, ret) == [this |-> t, ret |-> ret]

\* for (let i = startIndex; i <= index; i++)
\*     prefixSum[i] = prefixSum[i - 1] + values[i];
RECURSIVE FillForward(_, _, _, _)
FillForward(ps, vals, i, index) ==
    IF i > index THEN ps
    ELSE FillForward(Store(ps, i, Plus(Load(ps, i - 1), Load(vals, i))),
                     vals, i + 1, index)

\* _getAccumulatedValue without the seed case: prefixSum[0] is never written.
_getAccumulatedValueNoSeed(t, index0) ==
    IF index0 <= t.prefixSumValidIndex
    THEN Answered(t, Load(t.prefixSum, index0))
    ELSE LET seed == t.prefixSumValidIndex + 1 = 0
             startIndex == IF seed THEN 1 ELSE t.prefixSumValidIndex + 1
             index == IF index0 >= Len(t.values) THEN Len(t.values) - 1 ELSE index0
             filled == FillForward(t.prefixSum, t.values, startIndex, index)
         IN  Answered(This(t.values, filled, Max(t.prefixSumValidIndex, index)),
                      Load(filled, index))

\* _getAccumulatedValue that always fills the cache to the last index.
_getAccumulatedValueFillsAll(t, index0) ==
    IF index0 <= t.prefixSumValidIndex
    THEN Answered(t, Load(t.prefixSum, index0))
    ELSE LET seed == t.prefixSumValidIndex + 1 = 0
             seeded == IF seed THEN Store(t.prefixSum, 0, Load(t.values, 0))
                       ELSE t.prefixSum
             startIndex == IF seed THEN 1 ELSE t.prefixSumValidIndex + 1
             index == IF index0 >= Len(t.values) THEN Len(t.values) - 1 ELSE index0
             filled == FillForward(seeded, t.values, startIndex, Len(t.values) - 1)
         IN  Answered(This(t.values, filled, Len(t.values) - 1), Load(filled, index))

\* _getAccumulatedValue without the early return and with the watermark set
\* to the index instead of the maximum.
_getAccumulatedValueSetsValidIndex(t, index0) ==
    LET seed == t.prefixSumValidIndex + 1 = 0
        seeded == IF seed THEN Store(t.prefixSum, 0, Load(t.values, 0))
                  ELSE t.prefixSum
        startIndex == IF seed THEN 1 ELSE t.prefixSumValidIndex + 1
        index == IF index0 >= Len(t.values) THEN Len(t.values) - 1 ELSE index0
        filled == FillForward(seeded, t.values, startIndex, index)
    IN  Answered(This(t.values, filled, index), Load(filled, index))

_getAccumulatedValue(t, index0) ==
    IF index0 <= t.prefixSumValidIndex
    THEN Answered(t, Load(t.prefixSum, index0))
    ELSE LET seed == t.prefixSumValidIndex + 1 = 0
             seeded == IF seed THEN Store(t.prefixSum, 0, Load(t.values, 0))
                       ELSE t.prefixSum
             startIndex == IF seed THEN 1 ELSE t.prefixSumValidIndex + 1
             index == IF index0 >= Len(t.values) THEN Len(t.values) - 1 ELSE index0
             filled == FillForward(seeded, t.values, startIndex, index)
         IN  Answered(This(t.values, filled, Max(t.prefixSumValidIndex, index)),
                      Load(filled, index))

getTotalValue(t) ==
    IF Len(t.values) = 0 THEN Answered(t, Number(0))
    ELSE _getAccumulatedValue(t, Len(t.values) - 1)

\* getAccumulatedValue without the index < 0 return.
getAccumulatedValueNoNegativeCheck(t, index) ==
    _getAccumulatedValue(t, AsInt(toUint32(Number(index))))

getAccumulatedValue(t, index) ==
    IF index < 0 THEN Answered(t, Number(0))
    ELSE _getAccumulatedValue(t, AsInt(toUint32(Number(index))))

\* A position handed to getIndexOf: the rational num / den, den > 0.
\* Math.floor(accumulatedValue)
Floor(q) == q.num \div q.den

\* mid = low + ((high - low) / 2) | 0
Mid(low, high) == (2 * low + (high - low)) \div 2

\* Search with accumulatedValue > midStop in place of >=: a position at the
\* end of an item stops there.
RECURSIVE SearchStrictStop(_, _, _, _, _, _)
SearchStrictStop(t, accumulatedValue, low, high, mid0, midStart0) ==
    IF low > high THEN [index |-> mid0, midStart |-> midStart0]
    ELSE LET mid == Mid(low, high)
             midStop == Load(t.prefixSum, mid)
             midStart == Minus(midStop, Load(t.values, mid))
         IN  IF Less(Number(accumulatedValue), midStart)
             THEN SearchStrictStop(t, accumulatedValue, low, mid - 1, mid, midStart)
             ELSE IF Less(midStop, Number(accumulatedValue))
             THEN SearchStrictStop(t, accumulatedValue, mid + 1, high, mid, midStart)
             ELSE [index |-> mid, midStart |-> midStart]

\* Search with accumulatedValue <= midStart in place of <: a position at the
\* start of an item goes left of it.
RECURSIVE SearchStartExclusive(_, _, _, _, _, _)
SearchStartExclusive(t, accumulatedValue, low, high, mid0, midStart0) ==
    IF low > high THEN [index |-> mid0, midStart |-> midStart0]
    ELSE LET mid == Mid(low, high)
             midStop == Load(t.prefixSum, mid)
             midStart == Minus(midStop, Load(t.values, mid))
         IN  IF GreaterEq(midStart, Number(accumulatedValue))
             THEN SearchStartExclusive(t, accumulatedValue, low, mid - 1, mid, midStart)
             ELSE IF GreaterEq(Number(accumulatedValue), midStop)
             THEN SearchStartExclusive(t, accumulatedValue, mid + 1, high, mid, midStart)
             ELSE [index |-> mid, midStart |-> midStart]

\* The while loop of getIndexOf from (low, high), with mid and midStart as the
\* last iteration left them.
RECURSIVE Search(_, _, _, _, _, _)
Search(t, accumulatedValue, low, high, mid0, midStart0) ==
    IF low > high THEN [index |-> mid0, midStart |-> midStart0]
    ELSE LET mid == Mid(low, high)
             midStop == Load(t.prefixSum, mid)
             midStart == Minus(midStop, Load(t.values, mid))
         IN  IF Less(Number(accumulatedValue), midStart)
             THEN Search(t, accumulatedValue, low, mid - 1, mid, midStart)
             ELSE IF GreaterEq(Number(accumulatedValue), midStop)
             THEN Search(t, accumulatedValue, mid + 1, high, mid, midStart)
             ELSE [index |-> mid, midStart |-> midStart]

\* new PrefixSumIndexOfResult(index, remainder)
\* The indices mid at which the loop of Search reads this.prefixSum.
RECURSIVE SearchReads(_, _, _, _)
SearchReads(t, accumulatedValue, low, high) ==
    IF low > high THEN {}
    ELSE LET mid == Mid(low, high)
             midStop == Load(t.prefixSum, mid)
             midStart == Minus(midStop, Load(t.values, mid))
         IN  {mid} \cup
             IF Less(Number(accumulatedValue), midStart)
             THEN SearchReads(t, accumulatedValue, low, mid - 1)
             ELSE IF GreaterEq(Number(accumulatedValue), midStop)
             THEN SearchReads(t, accumulatedValue, mid + 1, high)
             ELSE {}

PrefixSumIndexOfResult(index, remainder) == [index |-> index, remainder |-> remainder]

\* getIndexOf with high = this.values.length: the search may read one item
\* past the end.
getIndexOfHighOffByOne(t, position) ==
    LET accumulatedValue == Floor(position)
        full == getTotalValue(t).this
        found == Search(full, accumulatedValue, 0, Len(full.values), 0, Number(0))
    IN  Answered(full, PrefixSumIndexOfResult(found.index,
                           Minus(Number(accumulatedValue), found.midStart)))

\* getIndexOf coercing the position with toUint32, as the other methods
\* coerce their arguments: a negative position becomes 0.
getIndexOfCoercesPosition(t, position) ==
    LET accumulatedValue == AsInt(toUint32(Number(Floor(position))))
        full == getTotalValue(t).this
        found == Search(full, accumulatedValue, 0, Len(full.values) - 1, 0, Number(0))
    IN  Answered(full, PrefixSumIndexOfResult(found.index,
                           Minus(Number(accumulatedValue), found.midStart)))

\* getIndexOf without the getTotalValue() call: the search runs on the cache
\* as it is.
getIndexOfNoRecompute(t, position) ==
    LET accumulatedValue == Floor(position)
        found == Search(t, accumulatedValue, 0, Len(t.values) - 1, 0, Number(0))
    IN  Answered(t, PrefixSumIndexOfResult(found.index,
                        Minus(Number(accumulatedValue), found.midStart)))

\* getIndexOf with the remainder taken from the end of the found item
\* (this.prefixSum[mid]) instead of its start.
getIndexOfRemainderFromStop(t, position) ==
    LET accumulatedValue == Floor(position)
        full == getTotalValue(t).this
        found == Search(full, accumulatedValue, 0, Len(full.values) - 1, 0, Number(0))
    IN  Answered(full, PrefixSumIndexOfResult(found.index,
                           Minus(Number(accumulatedValue),
                                 Load(full.prefixSum, found.index))))

getIndexOf(t, position) ==
    LET accumulatedValue == Floor(position)
        full == getTotalValue(t).this
        found == Search(full, accumulatedValue, 0, Len(full.values) - 1, 0, Number(0))
    IN  Answered(full, PrefixSumIndexOfResult(found.index,
                           Minus(Number(accumulatedValue), found.midStart)))

\* ------------------------------------------------------------ marker service
\* Map and ResourceMap (a map keyed by the URI's string): a function on the
\* keys it holds.
EmptyMap == [k \in {} |-> TRUE]
Has(m, k) == k \in DOMAIN m
MapSet(m, k, v) == [x \in DOMAIN m \cup {k} |-> IF x = k THEN v ELSE m[x]]
MapDelete(m, k) == [x \in DOMAIN m \ {k} |-> m[x]]

\* new DoubleResourceMap()
DoubleResourceMap == [_byResource |-> EmptyMap, _byOwner |-> EmptyMap]

\* DoubleResourceMap.set with the by-owner index left out.
setByResourceOnly(d, resource, owner, value) ==
    LET ownerMap == IF Has(d._byResource, resource) THEN d._byResource[resource]
                    ELSE EmptyMap
    IN  [d EXCEPT !._byResource = MapSet(@, resource, MapSet(ownerMap, owner, value))]

\* DoubleResourceMap.set(resource, owner, value)
set(d, resource, owner, value) ==
    LET ownerMap == IF Has(d._byResource, resource) THEN d._byResource[resource]
                    ELSE EmptyMap
        resourceMap == IF Has(d._byOwner, owner) THEN d._byOwner[owner]
                       ELSE EmptyMap
    IN  [_byResource |-> MapSet(d._byResource, resource, MapSet(ownerMap, owner, value)),
         _byOwner |-> MapSet(d._byOwner, owner, MapSet(resourceMap, resource, value))]

\* DoubleResourceMap.get(resource, owner): a value, or undefined
get(d, resource, owner) ==
    IF Has(d._byResource, resource) /\ Has(d._byResource[resource], owner)
    THEN [defined |-> TRUE, value |-> d._byResource[resource][owner]]
    ELSE [defined |-> FALSE, value |-> << >>]

\* DoubleResourceMap.delete(resource, owner): the map it leaves, the boolean
\* it returns, and whether it threw 'illegal state' instead.
delete(d, resource, owner) ==
    LET removedA == Has(d._byResource, resource) /\ Has(d._byResource[resource], owner)
        removedB == Has(d._byOwner, owner) /\ Has(d._byOwner[owner], resource)
        byResource == IF removedA
                      THEN MapSet(d._byResource, resource,
                                  MapDelete(d._byResource[resource], owner))
                      ELSE d._byResource
        byOwner == IF removedB
                   THEN MapSet(d._byOwner, owner, MapDelete(d._byOwner[owner], resource))
                   ELSE d._byOwner
    IN  [this |-> [_byResource |-> byResource, _byOwner |-> byOwner],
         ret |-> removedA /\ removedB,
         threw |-> removedA # removedB]

\* MarkerService._toMarker(owner, resource, data): undefined for data without
\* a message, else the marker (of its fields the model keeps the message).
_toMarker(owner, resource, data) ==
    [defined |-> data.message # "",
     marker |-> [resource |-> resource, owner |-> owner, message |-> data.message]]

\* The markers changeOne builds from markerData.
RECURSIVE Markers(_, _, _)
Markers(owner, resource, markerData) ==
    IF markerData = << >> THEN << >>
    ELSE LET marker == _toMarker(owner, resource, Head(markerData))
             rest == Markers(owner, resource, Tail(markerData))
         IN  IF marker.defined THEN <<marker.marker>> \o rest ELSE rest

\* The debounced list of a service before its first event and after each
\* delivery (Event.debounce's output = undefined), and a list being built.
NoOutput == [defined |-> FALSE, list |-> << >>]
Output(list) == [defined |-> TRUE, list |-> list]

\* The for loop of _debouncer over the uris of one event.
RECURSIVE Deduped(_, _, _)
Deduped(last, dedupeMap, event) ==
    IF event = << >> THEN [last |-> last, _dedupeMap |-> dedupeMap]
    ELSE LET uri == Head(event)
         IN  IF uri \notin dedupeMap
             THEN Deduped(Append(last, uri), dedupeMap \cup {uri}, Tail(event))
             ELSE Deduped(last, dedupeMap, Tail(event))

\* MarkerService._debouncer(last, event), reading and writing the static
\* MarkerService._dedupeMap.
_debouncer(last, event, dedupeMap) ==
    IF ~last.defined THEN Deduped(<< >>, {}, event)
    ELSE Deduped(last.list, dedupeMap, event)

\* The marker services and the static they share.
MarkerServices(data, out, dedupeMap, f) ==
    [_data |-> data, output |-> out, _dedupeMap |-> dedupeMap, fired |-> f]
Elements(s) == {s[i] : i \in DOMAIN s}

\* this._onMarkerChanged.fire(event) of one service: Event.debounce merges
\* the event into the service's output with _debouncer.
fire(m, service, event) ==
    LET merged == _debouncer(m.output[service], event, m._dedupeMap)
    IN  [m EXCEPT !.output[service] = Output(merged.last),
                  !._dedupeMap = merged._dedupeMap,
                  !.fired[service] = @ \cup Elements(event)]

\* What a changeOne or remove call leaves: the services, the events it fired,
\* and whether it ended in delete's throw.
Changed(m, events, threw) == [services |-> m, events |-> events, threw |-> threw]

\* MarkerService.changeOne(owner, resource, markerData) on one service
changeOne(m, service, owner, resource, markerData) ==
    IF markerData = << >>
    THEN LET removed == delete(m._data[service], resource, owner)
             deleted == [m EXCEPT !._data[service] = removed.this]
         IN  IF removed.threw THEN Changed(deleted, << >>, TRUE)
             ELSE IF removed.ret
             THEN Changed(fire(deleted, service, <<resource>>), << <<resource>> >>, FALSE)
             ELSE Changed(deleted, << >>, FALSE)
    ELSE LET markers == Markers(owner, resource, markerData)
             stored == [m EXCEPT !._data[service] = set(@, resource, owner, markers)]
         IN  Changed(fire(stored, service, <<resource>>), << <<resource>> >>, FALSE)

\* MarkerService.remove(owner, resources) on one service
RECURSIVE remove(_, _, _, _)
remove(m, service, owner, resources) ==
    IF resources = << >> THEN Changed(m, << >>, FALSE)
    ELSE LET one == changeOne(m, service, owner, Head(resources), << >>)
             rest == remove(one.services, service, owner, Tail(resources))
         IN  IF one.threw THEN one
             ELSE Changed(rest.services, one.events \o rest.events, rest.threw)

\* ------------------------------------------------------------ state machine
\* The record of the last call: the method, whether a mutator returned true
\* (changed), whether it threw, and the watermark and length before it.
Before(t) == [prefixSumValidIndex |-> t.prefixSumValidIndex, length |-> Len(t.values)]
MutatorCall(op, pre, r) ==
    [op |-> op, changed |-> r.ret, threw |-> r.threw, pre |-> Before(pre)]
QueryCall(op, pre) ==
    [op |-> op, changed |-> FALSE, threw |-> FALSE, pre |-> Before(pre)]

\* The fields become those the call left.
Becomes(t) ==
    /\ values' = t.values
    /\ prefixSum' = t.prefixSum
    /\ prefixSumValidIndex' = t.prefixSumValidIndex
    /\ UNCHANGED markerVars

\* The constructor stores the array it is given (this.values = values), so
\* the caller's array and this.values are one object (shared) until a mutator
\* assigns a new array to this.values.  A caller that kept no reference to
\* the array has nothing to observe or write: NoArgument.
NoArgument == [array |-> << >>, shared |-> FALSE]
Argument(initial) == [array |-> initial, shared |-> TRUE]
\* The caller's array after a call that left newValues in this.values, having
\* assigned a new array to this.values (replaced) or written in place.
ArgumentAfter(newValues, replaced) ==
    IF ~argument.shared THEN argument
    ELSE IF replaced THEN [argument EXCEPT !.shared = FALSE]
    ELSE [argument EXCEPT !.array = newValues]

\* The eager reference model run side by side with the object: it keeps the
\* plain weight sequence and nothing else.  Its mutations (a position beyond
\* its sequence is refused and changes nothing):
EagerInsert(w, at, run) ==
    IF at > Len(w) THEN w
    ELSE SubSeq(w, 1, at) \o run \o SubSeq(w, at + 1, Len(w))
EagerReplace(w, index, value) ==
    IF index >= Len(w) THEN w ELSE [w EXCEPT ![index + 1] = value]
EagerRemove(w, startIndex, cnt) ==
    IF startIndex >= Len(w) THEN w
    ELSE SubSeq(w, 1, startIndex) \o SubSeq(w, startIndex + cnt + 1, Len(w))

Mutators == {"insertValues", "changeValue", "removeValues"}
Queries == {"getTotalValue", "getAccumulatedValue", "getIndexOf"}

\* Arguments the calls are given.  Runs to insert: up to MaxInsert weights.
Runs == SeqsUpTo(MaxInsert)
\* startIndex and cnt of removeValues: up to and beyond any length.
StartIndexes == 0..MaxLen
Counts == 0..(MaxLen + 1)
\* index of getAccumulatedValue: negative, in range and beyond the end.
Indexes == (-1)..MaxLen
\* Positions handed to getIndexOf: the halves from -1 to past the largest total.
Positions == {[num |-> n, den |-> 2] : n \in (-2)..(2 * MaxTotal + 3)}

\* The marker services as constructed: no markers, no event fired yet.  The
\* static _dedupeMap is unassigned then and assigned before it is first read.
Services == {"service1", "service2"}
MarkersConstructed ==
    /\ _data = [service \in Services |-> DoubleResourceMap]
    /\ output = [service \in Services |-> NoOutput]
    /\ _dedupeMap = {}
    /\ fired = [service \in Services |-> {}]

Init ==
    \E initial \in SeqsUpTo(MaxLen) :
        /\ values = constructor(initial).values
        /\ prefixSum = constructor(initial).prefixSum
        /\ prefixSumValidIndex = constructor(initial).prefixSumValidIndex
        /\ call = QueryCall("constructor", constructor(initial))
        /\ argument = NoArgument
        /\ weights = initial
        /\ MarkersConstructed

\* insertValues(insertIndex, insertValues) with 0 <= insertIndex <= N
InsertValues ==
    \E at \in 0..Len(values), run \in Runs :
        /\ Len(values) + Len(run) <= MaxLen
        /\ Becomes(insertValues(this, at, run).this)
        /\ call' = MutatorCall("insertValues", this, insertValues(this, at, run))
        /\ argument' = ArgumentAfter(values', insertValues(this, at, run).ret)
        /\ weights' = EagerInsert(weights, at, run)

\* changeValue(index, value) with 0 <= index < N
ChangeValue ==
    \E index \in 0..(Len(values) - 1), value \in Weights :
        /\ Becomes(changeValue(this, index, value).this)
        /\ call' = MutatorCall("changeValue", this, changeValue(this, index, value))
        /\ argument' = ArgumentAfter(values', FALSE)
        /\ weights' = EagerReplace(weights, index, value)

\* removeValues(startIndex, cnt) with any startIndex >= 0 and cnt >= 0
RemoveValues ==
    \E startIndex \in StartIndexes, cnt \in Counts :
        /\ Becomes(removeValues(this, startIndex, cnt).this)
        /\ call' = MutatorCall("removeValues", this, removeValues(this, startIndex, cnt))
        /\ argument' = ArgumentAfter(values', removeValues(this, startIndex, cnt).ret)
        /\ weights' = EagerRemove(weights, startIndex, cnt)

GetTotalValue ==
    /\ Becomes(getTotalValue(this).this)
    /\ call' = QueryCall("getTotalValue", this)
    /\ argument' = ArgumentAfter(values', FALSE)
    /\ UNCHANGED weights

\* getAccumulatedValue(index) with any index, also negative or beyond the end
GetAccumulatedValue ==
    \E index \in Indexes :
        /\ Becomes(getAccumulatedValue(this, index).this)
        /\ call' = QueryCall("getAccumulatedValue", this)
        /\ argument' = ArgumentAfter(values', FALSE)
        /\ UNCHANGED weights

GetIndexOf ==
    \E position \in Positions :
        /\ Becomes(getIndexOf(this, position).this)
        /\ call' = QueryCall("getIndexOf", this)
        /\ argument' = ArgumentAfter(values', FALSE)
        /\ UNCHANGED weights

Next ==
    \/ InsertValues
    \/ ChangeValue
    \/ RemoveValues
    \/ GetTotalValue
    \/ GetAccumulatedValue
    \/ GetIndexOf

Spec == Init /\ [][Next]_vars

\* ------------------------------------------------------------ wide weights
\* 2^31, a weight that fits in a Uint32Array element: two of them sum to 2^32.
HalfRange == [type |-> "number", hi |-> Base \div 2, lo |-> 0]
WideWeights == Weights \cup {HalfRange}

\* new PrefixSumComputer(values) with weights up to 2^31
InitWide ==
    \E initial \in UNION {[1..k -> WideWeights] : k \in 0..MaxLen} :
        /\ values = constructor(initial).values
        /\ prefixSum = constructor(initial).prefixSum
        /\ prefixSumValidIndex = constructor(initial).prefixSumValidIndex
        /\ call = QueryCall("constructor", constructor(initial))
        /\ argument = NoArgument
        /\ weights = initial
        /\ MarkersConstructed

\* The calls of Spec on an object constructed with weights up to 2^31.
SpecWide == InitWide /\ [][Next]_vars

\* ------------------------------------------------------------ caller's array
\* new PrefixSumComputer(values) by a caller that keeps its array
InitOwnership ==
    \E initial \in SeqsUpTo(MaxLen) :
        /\ values = constructor(initial).values
        /\ prefixSum = constructor(initial).prefixSum
        /\ prefixSumValidIndex = constructor(initial).prefixSumValidIndex
        /\ call = QueryCall("constructor", constructor(initial))
        /\ argument = Argument(initial)
        /\ weights = initial
        /\ MarkersConstructed

\* The caller writes an element of the array it passed to the constructor:
\* while this.values is that array the write is a write of this.values.
CallerWrites ==
    \E index \in 0..(Len(argument.array) - 1), value \in Weights :
        /\ argument' = [argument EXCEPT !.array = Store(@, index, value)]
        /\ values' = IF argument.shared THEN Store(values, index, value) ELSE values
        /\ UNCHANGED <<prefixSum, prefixSumValidIndex>>
        /\ call' = QueryCall("callerWrites", this)
        /\ UNCHANGED weights
        /\ UNCHANGED markerVars

NextOwnership ==
    \/ Next
    \/ CallerWrites

\* The calls of Spec and the caller's writes to the array it constructed
\* the object with.
SpecOwnership == InitOwnership /\ [][NextOwnership]_vars

\* ------------------------------------------------------------ any arguments
\* insertValues(insertIndex, insertValues) with insertIndex > N
InsertValuesBeyondEnd ==
    \E at \in (Len(values) + 1)..(MaxLen + 1), run \in Runs :
        /\ Len(values) + Len(run) <= MaxLen
        /\ Becomes(insertValues(this, at, run).this)
        /\ call' = MutatorCall("insertValues", this, insertValues(this, at, run))
        /\ argument' = ArgumentAfter(values', insertValues(this, at, run).threw)
        /\ UNCHANGED weights

NextAnyArgs ==
    \/ Next
    \/ InsertValuesBeyondEnd

\* The calls of Spec and insertValues beyond the end.
SpecAnyArgs == Init /\ [][NextAnyArgs]_vars

\* ------------------------------------------------------------ marker calls
\* The longest debounced list a service is let to build before a delivery.
MaxPending == 3

\* Arguments the marker calls are given.
MarkerResources == {"file:a", "file:b"}
Owners == {"ownerA", "ownerB"}
OneOwner == {"ownerA"}
OneService == {"service1"}
MarkerDatas == {<< >>, <<[message |-> "m"]>>, <<[message |-> ""]>>}
ResourceLists == UNION {[1..k -> MarkerResources] : k \in 1..2}

\* new MarkerService() for each service, beside a PrefixSumComputer of no
\* weights that is never called.
InitMarkers ==
    /\ values = constructor(<< >>).values
    /\ prefixSum = constructor(<< >>).prefixSum
    /\ prefixSumValidIndex = constructor(<< >>).prefixSumValidIndex
    /\ call = QueryCall("constructor", constructor(<< >>))
    /\ argument = NoArgument
    /\ weights = << >>
    /\ MarkersConstructed

markerServices == MarkerServices(_data, output, _dedupeMap, fired)

\* The services become those the call left.
MarkersBecome(m) ==
    /\ _data' = m._data
    /\ output' = m.output
    /\ _dedupeMap' = m._dedupeMap
    /\ fired' = m.fired
    /\ UNCHANGED prefixSumVars

\* changeOne(owner, resource, markerData) on one of the services S by one of
\* the owners O
ChangeOne(S, O) ==
    \E service \in S, owner \in O, resource \in MarkerResources,
       markerData \in MarkerDatas :
        LET left == changeOne(markerServices, service, owner, resource, markerData)
        IN  /\ Len(left.services.output[service].list) <= MaxPending
            /\ MarkersBecome(left.services)

\* remove(owner, resources) on one of the services S by one of the owners O
Remove(S, O) ==
    \E service \in S, owner \in O, resources \in ResourceLists :
        LET left == remove(markerServices, service, owner, resources)
        IN  /\ Len(left.services.output[service].list) <= MaxPending
            /\ MarkersBecome(left.services)

\* The debounce timer of one of the services S runs: the service's output is
\* delivered to the listeners of onMarkerChanged and reset.
Deliver(S) ==
    \E service \in S :
        /\ output[service].defined
        /\ output' = [output EXCEPT ![service] = NoOutput]
        /\ fired' = [fired EXCEPT ![service] = {}]
        /\ UNCHANGED <<_data, _dedupeMap>>
        /\ UNCHANGED prefixSumVars

\* Several services used by one owner.
NextMarkers ==
    \/ ChangeOne(Services, OneOwner)
    \/ Remove(Services, OneOwner)
    \/ Deliver(Services)

SpecMarkers == InitMarkers /\ [][NextMarkers]_vars

\* One service used by several owners.
NextStore ==
    \/ ChangeOne(OneService, Owners)
    \/ Remove(OneService, Owners)
    \/ Deliver(OneService)

SpecStore == InitMarkers /\ [][NextStore]_vars

\* ------------------------------------------------------------ reference
\* The weight array holding the given integers.
Uint32ArrayOf(ints) == [i \in 1..Len(ints) |-> Number(ints[i])]

\* The sum of weights[0..i] computed from scratch, exact (never reduced).
RECURSIVE SumThrough(_, _)
SumThrough(w, i) ==
    IF i < 0 THEN Number(0)
    ELSE Plus(SumThrough(w, i - 1), w[i + 1])

\* Elements from..to (JavaScript indices, `to` exclusive) of a sequence.
Slice(a, from, to) == SubSeq(a, from + 1, to)

\* ------------------------------------------------------------ C1
\* C1: in every reachable state, whatever mutations and queries led to it,
\* getAccumulatedValue(i) returns the from-scratch sum of weights[0..i] for
\* every i with 0 <= i < N.
SumConsistency ==
    \A i \in 0..(Len(values) - 1) :
        getAccumulatedValue(this, i).ret = SumThrough(values, i)

\* A changeValue has just invalidated a fully valid cache, and the entry at
\* the end of the cache is stale: the next query has to recompute it.
SumConsistencyWitness ==
    /\ call.op = "changeValue" /\ call.changed
    /\ Len(values) = 2
    /\ call.pre.prefixSumValidIndex = 1
    /\ prefixSumValidIndex = 0
    /\ Load(prefixSum, 1) # SumThrough(values, 1)

\* ------------------------------------------------------------ C2
\* C2: in every reachable state, prefixSum[i] is the inclusive prefix sum
\* of the current weights[0..i] for every i with 0 <= i <= watermark.
CacheValidity ==
    \A i \in 0..prefixSumValidIndex :
        Load(prefixSum, i) = SumThrough(values, i)

\* An insertValues has carried a non-empty valid prefix of the cache over
\* into the new cache array.
CacheValidityWitness ==
    /\ call.op = "insertValues" /\ call.changed
    /\ prefixSumValidIndex >= 0
    /\ Load(values, 0) # Number(0)

\* ------------------------------------------------------------ C3
\* C3: in every reachable state the watermark lies in [-1, N - 1]; so it
\* is -1 when the sequence is empty and never points past the end.
WatermarkInRange ==
    /\ prefixSumValidIndex >= -1
    /\ prefixSumValidIndex <= Len(values) - 1
    /\ (Len(values) = 0 => prefixSumValidIndex = -1)

\* A removeValues has shortened the sequence to below the old watermark.
WatermarkInRangeWitness ==
    /\ call.op = "removeValues" /\ call.changed
    /\ call.pre.prefixSumValidIndex > Len(values) - 1
    /\ Len(values) >= 1

\* ------------------------------------------------------------ C4
\* C4: after construction and after every completed insertValues,
\* removeValues or changeValue call, values and prefixSum have the same
\* length.
LengthParity ==
    (call.op \in Mutators \cup {"constructor"} /\ ~call.threw)
        => Len(values) = Len(prefixSum)

\* An insertValues has lengthened a non-empty sequence.
LengthParityWitness ==
    /\ call.op = "insertValues" /\ call.changed
    /\ call.pre.length >= 1
    /\ Len(values) > call.pre.length

\* ------------------------------------------------------------ C5
\* C5: a mutator call leaves the watermark at most what it was before the
\* call, and a query call leaves it at least what it was.
WatermarkDirection ==
    /\ call.op \in Mutators => prefixSumValidIndex <= call.pre.prefixSumValidIndex
    /\ call.op \in Queries => prefixSumValidIndex >= call.pre.prefixSumValidIndex

\* A changeValue below the watermark has lowered it.
WatermarkDirectionWitness ==
    /\ call.op = "changeValue"
    /\ prefixSumValidIndex < call.pre.prefixSumValidIndex

\* ------------------------------------------------------------ C6
\* Scenario B: [5,5] with insertValues(1, [2,3]) becomes [5,2,3,5], with
\* total 15 and accumulated value 7 through index 1.
ScenarioB ==
    LET r == insertValues(constructor(Uint32ArrayOf(<<5, 5>>)), 1, Uint32ArrayOf(<<2, 3>>))
    IN  /\ r.ret /\ ~r.threw
        /\ r.this.values = Uint32ArrayOf(<<5, 2, 3, 5>>)
        /\ getTotalValue(r.this).ret = Number(15)
        /\ getAccumulatedValue(r.this, 1).ret = Number(7)

\* C6: from every reachable state, insertValues(at, run) with 0 <= at <= N
\* and a non-empty run returns true and leaves the weights
\* old[0..at) ++ run ++ old[at..N); scenario B is one case.
InsertSplices ==
    /\ \A at \in 0..Len(values), run \in Runs \ {<<>>} :
          LET r == insertValues(this, at, run)
          IN  /\ r.ret /\ ~r.threw
              /\ r.this.values
                   = Slice(values, 0, at) \o run \o Slice(values, at, Len(values))
              /\ Len(r.this.values) = Len(values) + Len(run)
    /\ ScenarioB

\* An insertValues has put a run in front of the last weight of a non-empty
\* sequence, and that weight is not zero.
InsertSplicesWitness ==
    /\ call.op = "insertValues" /\ call.changed
    /\ call.pre.length >= 1
    /\ Len(values) = call.pre.length + 1
    /\ Load(values, Len(values) - 1) # Number(0)

\* ------------------------------------------------------------ C7
\* Scenario C: [5,2,3,5] with removeValues(1, 2) becomes [5,5], total 10.
ScenarioC ==
    LET r == removeValues(constructor(Uint32ArrayOf(<<5, 2, 3, 5>>)), 1, 2)
    IN  /\ r.ret
        /\ r.this.values = Uint32ArrayOf(<<5, 5>>)
        /\ getTotalValue(r.this).ret = Number(10)

\* C7: from every reachable state, removeValues(startIndex, count) with
\* startIndex < N and count >= 1 returns true and leaves the weights
\* old[0..startIndex) ++ old[startIndex+c..N), c = min(count, N - startIndex);
\* scenario C is one case.
RemoveClamps ==
    /\ \A startIndex \in 0..(Len(values) - 1), count \in Counts \ {0} :
          LET r == removeValues(this, startIndex, count)
              c == Min(count, Len(values) - startIndex)
          IN  /\ r.ret /\ ~r.threw
              /\ r.this.values
                   = Slice(values, 0, startIndex)
                       \o Slice(values, startIndex + c, Len(values))
    /\ ScenarioC

\* A removeValues has removed the first weight of a longer sequence.
RemoveClampsWitness ==
    /\ call.op = "removeValues" /\ call.changed
    /\ Len(values) >= 1
    /\ call.pre.length > Len(values)
    /\ prefixSumValidIndex = -1
    /\ call.pre.prefixSumValidIndex >= 0

\* ------------------------------------------------------------ C8
\* Scenario D, second half: [10] with changeValue(0, 20) returns true and
\* the total is 20.
ScenarioDChanged ==
    LET r == changeValue(constructor(Uint32ArrayOf(<<10>>)), 0, Number(20))
    IN  /\ r.ret
        /\ getTotalValue(r.this).ret = Number(20)

\* C8: from every reachable state, changeValue(index, value) with
\* 0 <= index < N and value # weights[index] returns true, sets
\* weights[index] to value and leaves the other weights and the length
\* alone, and the total that follows is the sum of the new weights.
ChangeReplacesOne ==
    /\ \A index \in 0..(Len(values) - 1), value \in Weights \cup {Number(MaxWeight + 1)} :
          value # Load(values, index) =>
              LET r == changeValue(this, index, value)
                  expected == [values EXCEPT ![index + 1] = value]
              IN  /\ r.ret /\ ~r.threw
                  /\ r.this.values = expected
                  /\ getTotalValue(r.this).ret = SumThrough(expected, Len(expected) - 1)
    /\ ScenarioDChanged

\* A changeValue has replaced the last weight of a sequence of two whose
\* cache was valid throughout.
ChangeReplacesOneWitness ==
    /\ call.op = "changeValue" /\ call.changed
    /\ Len(values) = 2
    /\ call.pre.prefixSumValidIndex = 1
    /\ prefixSumValidIndex = 0
    /\ Load(values, 0) # Number(0)

\* ------------------------------------------------------------ C9
\* Scenario D, first half: [10] with changeValue(0, 10) returns false.
ScenarioDUnchanged ==
    LET t == getTotalValue(constructor(Uint32ArrayOf(<<10>>))).this
    IN  changeValue(t, 0, Number(10)) = Returned(t, FALSE)

\* C9: from every reachable state, insertValues with an empty run,
\* removeValues with count 0 or with startIndex >= N, and changeValue with
\* the value already stored each return false and leave values, prefixSum
\* and the watermark as they were.
DegenerateNoOps ==
    /\ \A at \in 0..Len(values) :
          insertValues(this, at, <<>>) = Returned(this, FALSE)
    /\ \A startIndex \in StartIndexes :
          removeValues(this, startIndex, 0) = Returned(this, FALSE)
    /\ \A startIndex \in Len(values)..(MaxLen + 1), count \in Counts :
          removeValues(this, startIndex, count) = Returned(this, FALSE)
    /\ \A index \in 0..(Len(values) - 1) :
          changeValue(this, index, Load(values, index)) = Returned(this, FALSE)
    /\ ScenarioDUnchanged

\* A mutator has returned false on a sequence whose cache is valid
\* throughout, and the cache is still valid throughout.
DegenerateNoOpsWitness ==
    /\ call.op \in Mutators /\ ~call.changed
    /\ Len(values) = 2
    /\ call.pre.prefixSumValidIndex = 1
    /\ prefixSumValidIndex = 1

\* ------------------------------------------------------------ C10
\* C10: in every reachable state, whatever the watermark, getTotalValue()
\* returns 0 for the empty sequence and the sum of all N weights otherwise.
TotalIsSum ==
    /\ Len(values) = 0 => getTotalValue(this).ret = Number(0)
    /\ Len(values) > 0 =>
          getTotalValue(this).ret = SumThrough(values, Len(values) - 1)

\* A getTotalValue has been answered from a cache that was invalid
\* throughout, for weights that do not sum to zero.
TotalIsSumWitness ==
    /\ call.op = "getTotalValue"
    /\ Len(values) = 2
    /\ call.pre.prefixSumValidIndex = -1
    /\ prefixSumValidIndex = 1
    /\ Load(values, 0) # Number(0)

\* ------------------------------------------------------------ C11
\* C11: in every reachable state, for any length N >= 0 and any watermark,
\* getAccumulatedValue(index) with index >= N returns what getTotalValue()
\* returns.
BeyondEndIsTotal ==
    \A index \in Len(values)..(MaxLen + 1) :
        getAccumulatedValue(this, index).ret = getTotalValue(this).ret

\* ------------------------------------------------------------ C12
\* C12: in every reachable state, the empty sequence included,
\* getAccumulatedValue(index) with a negative index returns 0 and leaves
\* values, prefixSum and the watermark as they were.
NegativeIndexIsZero ==
    \A index \in (-(MaxLen + 1))..(-1) :
        getAccumulatedValue(this, index) = Answered(this, Number(0))

\* A getAccumulatedValue has left the cache of a non-empty sequence invalid
\* throughout: only a negative index does.
NegativeIndexIsZeroWitness ==
    /\ call.op = "getAccumulatedValue"
    /\ Len(values) >= 1
    /\ Load(values, 0) # Number(0)
    /\ call.pre.prefixSumValidIndex = -1
    /\ prefixSumValidIndex = -1

\* ------------------------------------------------------------ positions
\* The integer position p, and the comparison of a position with a number.
IntegerPosition(p) == [num |-> p, den |-> 1]
\* Integer positions: negative, in range, and at or beyond any total.
IntegerPositions == (-2)..(MaxTotal + 2)
\* position >= n
AtOrBeyond(position, n) == position.num >= AsInt(n) * position.den
\* The sum of all weights, from scratch.
Total == SumThrough(values, Len(values) - 1)

\* ------------------------------------------------------------ C13
\* Scenario A: [1,1,1] has total 3 and getIndexOf(2) is index 2, remainder 0.
ScenarioA ==
    LET t == constructor(Uint32ArrayOf(<<1, 1, 1>>))
    IN  /\ getTotalValue(t).ret = Number(3)
        /\ getIndexOf(t, IntegerPosition(2)).ret = PrefixSumIndexOfResult(2, Number(0))

\* C13: in every reachable state, whatever the watermark, getIndexOf(p) for
\* an integer p with 0 <= p < total returns the one index i with
\* sum(weights[0..i-1]) <= p < sum(weights[0..i]) and the remainder
\* p - sum(weights[0..i-1]); so 0 <= remainder < weights[i] and weights[i] is
\* not zero.  Scenario A is one case.
LocateInRange ==
    /\ \A p \in 0..(MaxTotal + 1) :
          Less(Number(p), Total) =>
              LET r == getIndexOf(this, IntegerPosition(p)).ret
                  Holds(j) == /\ GreaterEq(Number(p), SumThrough(values, j - 1))
                              /\ Less(Number(p), SumThrough(values, j))
              IN  /\ r.index \in 0..(Len(values) - 1)
                  /\ Holds(r.index)
                  /\ \A j \in 0..(Len(values) - 1) : Holds(j) => j = r.index
                  /\ r.remainder = Minus(Number(p), SumThrough(values, r.index - 1))
                  /\ GreaterEq(r.remainder, Number(0))
                  /\ Less(r.remainder, Load(values, r.index))
                  /\ Load(values, r.index) # Number(0)
    /\ ScenarioA

\* A getIndexOf has searched a sequence that starts with a zero weight and
\* whose cache was invalid throughout.
LocateInRangeWitness ==
    /\ call.op = "getIndexOf"
    /\ Len(values) = 2
    /\ Load(values, 0) = Number(0)
    /\ Load(values, 1) # Number(0)
    /\ call.pre.prefixSumValidIndex = -1

\* ------------------------------------------------------------ C14
\* C14: on a non-empty sequence, getIndexOf(position) for any position >=
\* total (whole or fractional, floored on input) returns the last index N - 1
\* and the remainder position - sum(weights[0..N-2]), the position being the
\* floored one; trailing and all-zero weights included.
LocateBeyondTotal ==
    Len(values) >= 1 =>
        \A position \in Positions :
            AtOrBeyond(position, Total) =>
                LET r == getIndexOf(this, position).ret
                IN  /\ r.index = Len(values) - 1
                    /\ r.remainder = Minus(Number(Floor(position)),
                                           SumThrough(values, Len(values) - 2))

\* A getIndexOf has searched a sequence that ends with a zero weight.
LocateBeyondTotalWitness ==
    /\ call.op = "getIndexOf"
    /\ Len(values) = 2
    /\ Load(values, 0) # Number(0)
    /\ Load(values, 1) = Number(0)

\* ------------------------------------------------------------ C15
\* C15: getIndexOf(position) with a negative position, or on the empty
\* sequence, returns index 0 and the (floored) position itself as remainder.
LocateDegenerate ==
    \A position \in Positions :
        (position.num < 0 \/ Len(values) = 0) =>
            getIndexOf(this, position).ret
                = PrefixSumIndexOfResult(0, Number(Floor(position)))

\* A getIndexOf has searched the empty sequence.
LocateDegenerateWitness ==
    /\ call.op = "getIndexOf"
    /\ Len(values) = 0

\* ------------------------------------------------------------ C16
\* getIndexOf(getAccumulatedValue(i)): the two calls one after the other.
LocateSumThrough(i) ==
    LET sum == getAccumulatedValue(this, i)
    IN  getIndexOf(sum.this, IntegerPosition(AsInt(sum.ret))).ret

\* C16 as stated: for every i with 0 <= i < N and weights[i] > 0,
\* getIndexOf(getAccumulatedValue(i)) is index i, remainder 0.
RoundTripThroughItem ==
    \A i \in 0..(Len(values) - 1) :
        Load(values, i) # Number(0) =>
            LocateSumThrough(i) = PrefixSumIndexOfResult(i, Number(0))

\* C16 as amended: for every i with 0 <= i < N and weights[i] > 0,
\* getIndexOf(getAccumulatedValue(i - 1)), the position where item i starts,
\* is index i, remainder 0.
RoundTripAtItemStart ==
    \A i \in 0..(Len(values) - 1) :
        Load(values, i) # Number(0) =>
            LocateSumThrough(i - 1) = PrefixSumIndexOfResult(i, Number(0))

\* A getIndexOf has searched a sequence of two non-zero weights.
RoundTripAtItemStartWitness ==
    /\ call.op = "getIndexOf"
    /\ Len(values) = 2
    /\ Load(values, 0) # Number(0)
    /\ Load(values, 1) # Number(0)

\* ------------------------------------------------------------ C17
\* C17: every insertValues, changeValue or removeValues call, whatever its
\* arguments, is either fully applied (it returns true and leaves a weight
\* array and a cache array of one length) or not applied at all (values,
\* prefixSum and prefixSumValidIndex are what they were); a call that throws
\* is not applied at all.
AtomicCalls ==
    [][call'.op \in Mutators =>
          \/ /\ call'.changed
             /\ ~call'.threw
             /\ Len(values') = Len(prefixSum')
          \/ UNCHANGED <<values, prefixSum, prefixSumValidIndex>>]_vars

\* ------------------------------------------------------------ C18
\* C18: for every weight sequence whose weights fit in unsigned 32 bits, also
\* one whose total exceeds 2^32 - 1, every cache entry up to the watermark and
\* every value getTotalValue and getAccumulatedValue return is the exact sum
\* of the weights, never that sum reduced modulo 2^32.
WraparoundFree ==
    /\ \A i \in 0..Min(prefixSumValidIndex, Len(values) - 1) :
          Load(prefixSum, i) = SumThrough(values, i)
    /\ Len(values) >= 1 => getTotalValue(this).ret = Total
    /\ \A i \in 0..(Len(values) - 1) :
          getAccumulatedValue(this, i).ret = SumThrough(values, i)

\* ------------------------------------------------------------ C19
\* C19: the object does not share its weight array with the caller: (a) no
\* call on the object changes the array that was passed to the constructor,
\* and (b) a write by the caller to that array changes no weight of the
\* object.
ExclusiveOwnership ==
    [][/\ call'.op \in Mutators \cup Queries => argument'.array = argument.array
       /\ call'.op = "callerWrites" => values' = values]_vars

\* ------------------------------------------------------------ C20
\* The call r, applied at position k, left the watermark at exactly
\* min(old watermark, k - 1) and the cache entries up to it as they were.
LowersExactly(r, k) ==
    /\ r.this.prefixSumValidIndex = Min(prefixSumValidIndex, k - 1)
    /\ \A i \in 0..r.this.prefixSumValidIndex :
          Load(r.this.prefixSum, i) = Load(prefixSum, i)

\* C20: from every reachable state, an insertValues(at, non-empty run), a
\* changeValue(index, different value) or a removeValues(startIndex, cnt >= 1)
\* with startIndex < N that is applied (returns true) leaves the watermark at
\* exactly min(old watermark, k - 1), k being at, index or startIndex, and
\* the cache entries 0..new watermark as the old cache had them.
ExactWatermark ==
    /\ \A at \in 0..Len(values), run \in Runs :
          LET r == insertValues(this, at, run)
          IN  (Len(run) >= 1) => r.ret /\ LowersExactly(r, at)
    /\ \A index \in 0..(Len(values) - 1), value \in Weights :
          LET r == changeValue(this, index, value)
          IN  (Load(values, index) # value) => r.ret /\ LowersExactly(r, index)
    /\ \A startIndex \in StartIndexes, cnt \in Counts :
          LET r == removeValues(this, startIndex, cnt)
          IN  (cnt >= 1 /\ startIndex < Len(values)) =>
                  r.ret /\ LowersExactly(r, startIndex)

\* A removeValues at index 1 has lowered the watermark from 1 to 0 and kept
\* the cache entry 0, which is not zero.
ExactWatermarkWitness ==
    /\ call.op = "removeValues"
    /\ call.changed
    /\ call.pre.prefixSumValidIndex = 1
    /\ prefixSumValidIndex = 0
    /\ Load(prefixSum, 0) # Number(0)

\* ------------------------------------------------------------ C21
\* C21: from every reachable state, getAccumulatedValue(index) with
\* 0 <= index < N leaves the watermark at max(old watermark, index); the
\* cache entries old watermark + 1 .. index are recomputed (entry 0 from
\* weights[0], entry i from entry i - 1 plus weights[i]) and every other
\* entry, those up to the old watermark and those beyond index, is left as
\* it was.
LazyFillForward ==
    \A index \in 0..(Len(values) - 1) :
        LET after == getAccumulatedValue(this, index).this
        IN  /\ after.prefixSumValidIndex = Max(prefixSumValidIndex, index)
            /\ after.values = values
            /\ Len(after.prefixSum) = Len(prefixSum)
            /\ \A i \in 0..(Len(values) - 1) :
                  IF i > prefixSumValidIndex /\ i <= index
                  THEN Load(after.prefixSum, i) =
                          IF i = 0 THEN Load(values, 0)
                          ELSE Uint32(Plus(Load(after.prefixSum, i - 1), Load(values, i)))
                  ELSE Load(after.prefixSum, i) = Load(prefixSum, i)

\* A getAccumulatedValue(0) has seeded entry 0 of an invalid cache and left
\* entry 1 alone: it does not hold the sum of the two weights.
LazyFillForwardWitness ==
    /\ call.op = "getAccumulatedValue"
    /\ call.pre.prefixSumValidIndex = -1
    /\ prefixSumValidIndex = 0
    /\ Len(values) = 2
    /\ Load(prefixSum, 1) # SumThrough(values, 1)

\* ------------------------------------------------------------ C22
\* C22: from every reachable state with a non-empty sequence, getTotalValue()
\* and getIndexOf(p), for every integer p, leave the watermark at N - 1; and
\* the search of getIndexOf reads this.prefixSum only at indices up to the
\* watermark getTotalValue() left.
FullRecomputeBeforeSearch ==
    /\ Len(values) >= 1 =>
          /\ getTotalValue(this).this.prefixSumValidIndex = Len(values) - 1
          /\ \A p \in IntegerPositions :
                getIndexOf(this, IntegerPosition(p)).this.prefixSumValidIndex
                    = Len(values) - 1
    /\ \A p \in IntegerPositions :
          LET full == getTotalValue(this).this
          IN  SearchReads(full, p, 0, Len(full.values) - 1)
                  \subseteq 0..full.prefixSumValidIndex

\* A getIndexOf on two weights with an invalid cache has left the watermark
\* at 1.
FullRecomputeBeforeSearchWitness ==
    /\ call.op = "getIndexOf"
    /\ call.pre.prefixSumValidIndex = -1
    /\ Len(values) = 2
    /\ prefixSumValidIndex = 1

\* ------------------------------------------------------------ C23
\* The query that left `after` changed neither the weights nor the length of
\* the cache, nor a cache entry at or below the old watermark.
QueryFrame(after) ==
    /\ after.values = values
    /\ Len(after.prefixSum) = Len(prefixSum)
    /\ \A i \in 0..Min(prefixSumValidIndex, Len(prefixSum) - 1) :
          Load(after.prefixSum, i) = Load(prefixSum, i)

\* C23: from every reachable state, getTotalValue(), getAccumulatedValue(index)
\* and getIndexOf(p), for every index and integer p, change neither the
\* weights nor the length of either array nor a cache entry at or below the
\* old watermark; and getAccumulatedValue(index) with index <= watermark
\* changes nothing at all.
QueriesKeepFrame ==
    /\ QueryFrame(getTotalValue(this).this)
    /\ \A index \in Indexes :
          /\ QueryFrame(getAccumulatedValue(this, index).this)
          /\ index <= prefixSumValidIndex =>
                getAccumulatedValue(this, index).this = this
    /\ \A p \in IntegerPositions : QueryFrame(getIndexOf(this, IntegerPosition(p)).this)

\* A query has raised the watermark from 0 to 1 above a cache entry that is
\* not zero.
QueriesKeepFrameWitness ==
    /\ call.op \in Queries
    /\ call.pre.prefixSumValidIndex = 0
    /\ prefixSumValidIndex = 1
    /\ Load(prefixSum, 0) # Number(0)

\* ------------------------------------------------------------ objects at rest
\* The last call was a removeValues that removed nothing.  removeValues(0, 0)
\* returns false and changes nothing in every state (EveryObjectComesToRest),
\* and RemoveValues makes that call, so the states at rest hold every
\* reachable object, whatever calls built it: a property of the object alone
\* that holds at rest holds of every reachable object.
AtRest == call = MutatorCall("removeValues", this, Returned(this, FALSE))
EveryObjectComesToRest == removeValues(this, 0, 0) = Returned(this, FALSE)

\* ------------------------------------------------------------ C24
\* The answers of the eager reference model, each computed from scratch.
EagerTotalSum(w) == SumThrough(w, Len(w) - 1)
EagerSumThrough(w, index) == SumThrough(w, index)
\* The first index whose inclusive sum exceeds p, or the last index when none
\* does; index 0 for a negative p or no weights.
EagerLocate(w, p) ==
    LET Exceeds(i) == Less(Number(p), SumThrough(w, i))
        index == IF Len(w) = 0 \/ p < 0 THEN 0
                 ELSE IF \E i \in 0..(Len(w) - 1) : Exceeds(i)
                 THEN CHOOSE i \in 0..(Len(w) - 1) :
                          Exceeds(i) /\ \A j \in 0..(i - 1) : ~Exceeds(j)
                 ELSE Len(w) - 1
    IN  PrefixSumIndexOfResult(index, Minus(Number(p), SumThrough(w, index - 1)))

\* C24: run side by side with the eager reference model through any sequence
\* of in-range calls, the object holds the reference's weights and every call
\* returns what the reference returns: getTotalValue(), getAccumulatedValue(i)
\* for -1 <= i < N and getIndexOf(p) for every integer p; the insertValues or
\* removeValues just made returned true iff the reference's length changed,
\* and changeValue returns true iff the reference's weight changes; whatever
\* the watermark, so two objects with the same mutations and different
\* queries answer alike.  The answers are checked of every reachable object,
\* at rest.
EagerRefinement ==
    /\ values = weights
    /\ call.op \in {"insertValues", "removeValues"} =>
          (call.changed <=> Len(weights) # call.pre.length)
    /\ EveryObjectComesToRest
    /\ AtRest =>
          /\ getTotalValue(this).ret = EagerTotalSum(weights)
          /\ \A index \in (-1)..(Len(weights) - 1) :
                getAccumulatedValue(this, index).ret = EagerSumThrough(weights, index)
          /\ \A p \in IntegerPositions :
                getIndexOf(this, IntegerPosition(p)).ret = EagerLocate(weights, p)
          /\ \A index \in 0..(Len(weights) - 1), value \in Weights :
                changeValue(this, index, value).ret
                    = (EagerReplace(weights, index, value) # weights)

\* A changeValue at index 1 has lowered a full watermark to 0: the object
\* answers from a half-valid cache, the reference from scratch.
EagerRefinementWitness ==
    /\ call.op = "changeValue"
    /\ call.changed
    /\ call.pre.prefixSumValidIndex = 1
    /\ prefixSumValidIndex = 0
    /\ Load(prefixSum, 1) # EagerSumThrough(weights, 1)

\* ------------------------------------------------------------ C25
\* C25: from every reachable state, the empty sequence included, and for
\* every integer position, if getIndexOf(position) returns (index, remainder)
\* then getAccumulatedValue(index - 1) + remainder = position.
LocateInvertsSumThrough ==
    \A p \in IntegerPositions :
        LET located == getIndexOf(this, IntegerPosition(p))
            sum == getAccumulatedValue(located.this, located.ret.index - 1).ret
        IN  /\ IsNumber(sum)
            /\ IsNumber(located.ret.remainder)
            /\ Plus(sum, located.ret.remainder) = Number(p)

\* A getIndexOf has searched two non-zero weights of which the first was
\* cached.
LocateInvertsSumThroughWitness ==
    /\ call.op = "getIndexOf"
    /\ call.pre.prefixSumValidIndex = 0
    /\ Len(values) = 2
    /\ Load(values, 0) # Number(0)
    /\ Load(values, 1) # Number(0)

\* ------------------------------------------------------------ C26
\* The object with the weights it has, the watermark lowered to
\* min(watermark, at - 1), and a fresh cache array holding the old entries up
\* to that watermark.
Invalidated(at) ==
    LET validIndex == Min(prefixSumValidIndex, at - 1)
    IN  This(values,
             [i \in 1..Len(prefixSum) |->
                 IF i - 1 <= validIndex THEN prefixSum[i] ELSE Number(0)],
             validIndex)

\* C26: from every reachable state, for every at in 0..N and every non-empty
\* run, insertValues(at, run) followed by removeValues(at, run.length) leaves
\* the weights as they were and a watermark no higher than before (the object
\* is as it was, but for the cache beyond min(watermark, at - 1)); and on the
\* object so left getTotalValue(), getAccumulatedValue(i) and getIndexOf(p)
\* return, for every i and p, what they return before the two calls.  Checked
\* of every reachable object, at rest.
InsertRemoveRoundTrip ==
    /\ EveryObjectComesToRest
    /\ AtRest =>
          /\ \A at \in 0..Len(values), run \in Runs :
                Len(run) >= 1 =>
                    LET inserted == insertValues(this, at, run)
                    IN  /\ inserted.ret
                        /\ removeValues(inserted.this, at, Len(run))
                               = Returned(Invalidated(at), TRUE)
          /\ \A at \in 0..Len(values) :
                /\ Invalidated(at).values = values
                /\ Invalidated(at).prefixSumValidIndex <= prefixSumValidIndex
                /\ getTotalValue(Invalidated(at)).ret = getTotalValue(this).ret
          /\ \A index \in Indexes :
                LET before == getAccumulatedValue(this, index).ret
                IN  \A at \in 0..Len(values) :
                        getAccumulatedValue(Invalidated(at), index).ret = before
          /\ \A position \in Positions :
                LET before == getIndexOf(this, position).ret
                IN  \A at \in 0..Len(values) :
                        getIndexOf(Invalidated(at), position).ret = before

\* A removeValues has taken one weight out of two and left a non-zero
\* weight, the cache having been valid up to index 1 before.
InsertRemoveRoundTripWitness ==
    /\ call.op = "removeValues"
    /\ call.changed
    /\ call.pre.length = 2
    /\ call.pre.prefixSumValidIndex >= 0
    /\ Len(values) = 1
    /\ Load(values, 0) # Number(0)

\* ------------------------------------------------------------ C27
\* How often uri occurs in list.
Occurrences(list, uri) == Cardinality({i \in DOMAIN list : list[i] = uri})

\* C27: whenever a service's debounced list is delivered, it holds each
\* resource the service fired a change for since its last delivery exactly
\* once, and nothing else; also with several services building their lists
\* at the same time.
DeliveredExactlyOnce ==
    [][\A service \in Services :
          (output[service].defined /\ ~output'[service].defined) =>
              /\ \A uri \in fired[service] :
                    Occurrences(output[service].list, uri) = 1
              /\ Elements(output[service].list) \subseteq fired[service]]_vars

\* ------------------------------------------------------------ C28
\* The pair (resource, owner) has an entry in the by-resource index, and in
\* the by-owner index.
InByResource(d, resource, owner) ==
    Has(d._byResource, resource) /\ Has(d._byResource[resource], owner)
InByOwner(d, resource, owner) ==
    Has(d._byOwner, owner) /\ Has(d._byOwner[owner], resource)

\* C28: after any sequence of set and delete calls, made through changeOne
\* and remove, every (resource, owner) pair has an entry in the by-resource
\* index iff it has one in the by-owner index, with the same value; delete
\* does not throw for any pair; and changeOne with empty marker data fires a
\* change event exactly when the pair had an entry.
IndexesConsistent ==
    \A service \in Services, resource \in MarkerResources, owner \in Owners :
        LET d == _data[service]
        IN  /\ InByResource(d, resource, owner) <=> InByOwner(d, resource, owner)
            /\ InByResource(d, resource, owner) =>
                  d._byResource[resource][owner] = d._byOwner[owner][resource]
            /\ ~delete(d, resource, owner).threw
            /\ LET left == changeOne(markerServices, service, owner, resource, << >>)
               IN  /\ ~left.threw
                   /\ (left.events # << >>) <=> get(d, resource, owner).defined

\* One owner has an entry for one resource, the other owner had an entry for
\* the other resource and it was deleted: both indexes keep an empty inner map.
IndexesConsistentWitness ==
    LET d == _data["service1"]
    IN  /\ InByResource(d, "file:a", "ownerA")
        /\ Has(d._byResource, "file:b")
        /\ DOMAIN d._byResource["file:b"] = {}
        /\ Has(d._byOwner, "ownerB")
        /\ DOMAIN d._byOwner["ownerB"] = {}

====
